---- MODULE Spec2Model ----
(***************************************************************************)
(* Catalog synchronisation and download tracking of SoulShark:             *)
(*   - the Spotify session (lib/spotify.ts, SpotifyContext, SpotifyAuth),  *)
(*   - the paginated sweeps and the per-collection caches,                 *)
(*   - the download list of DownloadsPage.                                 *)
(* Four specifications share the variables: SpecSweep (one catalog         *)
(* operation per behaviour, every batch size), SpecCache (operations that  *)
(* overlap and follow each other, logout included), SpecDownloads (the     *)
(* download list and its events) and SpecAuth (session and credentials).   *)
(***************************************************************************)
EXTENDS Integers, Sequences, FiniteSets, TLC

\* ------------------------------------------------------------------ bounds
MaxTotal == 2
MaxCacheTotal == 0
MaxBatchArg == 2
MaxTime == 2
MaxTasks == 2
MaxLogLen == 1
MaxInFlight == 1
MaxReplies == 1
MaxTokens == 2
MaxOps == 3
MaxTracks == 2
MaxPages == 3

\* ------------------------------------------------------- program constants
LikedMaxBatch == 50
LikedPageLimit == 50
PlaylistMaxBatch == 100
AlbumMaxBatch == 50
LikedFetchBatch == 50
PlaylistDefaultBatch == 100
AlbumDefaultBatch == 50
LoadLikedBatch == 50

\* The limit of the request that only reads the total.
ProbeLimit == 1
DebounceMs == 2000

Procs == {1, 2}
PlaylistIds == {"p1"}
AlbumIds == {"a1"}
Keys == {"liked"} \cup PlaylistIds \cup AlbumIds

KindOf(k) == IF k = "liked" THEN "liked" ELSE IF k \in PlaylistIds THEN "playlist" ELSE "album"

Min(a, b) == IF a < b THEN a ELSE b
Max(a, b) == IF a < b THEN b ELSE a

VARIABLES
    \* credential store of the backend and the clock (ms)
    creds, issued, now,
    \* lib/spotify.ts
    spotifyApiInstance,
    \* SpotifyContext
    isAuthenticated, spotifyApi, likedTracks, playlistTracksCache, albumTracksCache,
    lastRefreshTime,
    \* SpotifyAuth (settings panel): `credentials` is <<>> until loaded
    authCredentials, authIsAuthenticated,
    \* SpotifyContent
    tracks, loadingProgress,
    \* remote catalog: the number of items of each collection
    remote,
    \* SettingsPage: its `credentials` state
    settingsCredentials,
    \* SpotifyAuth: `isAuthenticating`, with the number of token pairs issued
    \* when the flow was started and whether the flow has reported success
    authFlow,
    \* asynchronous operations in progress
    proc, ops,
    \* DownloadsPage; the backend's download registry, the events and replies on
    \* their way to the page, the cancel request being served
    downloads, registry, nextTaskId, inflight, reply, canceling, cancelRaised

sessionVars == <<creds, issued, now, spotifyApiInstance, isAuthenticated, spotifyApi, lastRefreshTime,
                 authCredentials, authIsAuthenticated>>
cacheVars == <<likedTracks, playlistTracksCache, albumTracksCache>>
viewVars == <<tracks, loadingProgress>>
remoteVars == <<remote>>
pageVars == <<settingsCredentials, authFlow>>
downloadVars == <<downloads, registry, nextTaskId, inflight, reply, canceling, cancelRaised>>
procVars == <<proc, ops>>
vars == <<sessionVars, cacheVars, viewVars, remoteVars, pageVars, procVars, downloadVars>>

\* --------------------------------------------------------------- credentials
\* A token is a positive number; 0 is null (and, for the expiry, 0 is falsy too).
NoCreds == [access |-> 0, refresh |-> 0, expires_at |-> 0]
WithoutTokens(c) == [c EXCEPT !.access = 0, !.refresh = 0, !.expires_at = 0]

\* ------------------------------------------------------------------ caches
Absent == [present |-> FALSE, items |-> <<>>]
Some(s) == [present |-> TRUE, items |-> s]

Entry(k) ==
    IF k = "liked" THEN likedTracks
    ELSE IF k \in PlaylistIds THEN playlistTracksCache[k] ELSE albumTracksCache[k]

\* `likedTracks` is tested for truthiness (an array, also an empty one, is truthy);
\* the Maps are tested with has().
\* (faulty variant: an empty stored array is taken for no entry)
CacheHitMut(k, forceRefresh) == ~forceRefresh /\ Entry(k).present /\ Len(Entry(k).items) > 0
\* as written
CacheHit(k, forceRefresh) == ~forceRefresh /\ Entry(k).present

\* ------------------------------------------------------------ remote catalog
Track(j) == [id |-> j]
\* What one item of a page looks like: a saved track and a playlist item wrap the
\* track, an album's page holds simplified tracks.
Item(kind, j) == IF kind = "album" THEN Track(j) ELSE [track |-> Track(j)]

\* page(limit, offset) of a collection that now holds n items
PageLen(n, limit, offset) == Max(0, Min(limit, n - offset))
PageItems(kind, n, limit, offset) ==
    [j \in 1..PageLen(n, limit, offset) |-> Item(kind, offset + j)]

MapSeq(s, F(_)) == [j \in 1..Len(s) |-> F(s[j])]
TrackOf(item) == item.track
AlbumName(albumId) == albumId
AlbumTrack(albumId, t) == [id |-> t.id, album |-> [id |-> albumId, name |-> AlbumName(albumId)]]

\* --------------------------------------------------------------- pagination
MaxBatch(kind) ==
    IF kind = "liked" THEN LikedMaxBatch
    ELSE IF kind = "playlist" THEN PlaylistMaxBatch ELSE AlbumMaxBatch

\* (faulty variant: the batch size is not clamped)
ActualBatchSizeMut(kind, batchSize) == batchSize
\* Math.min(batchSize, max)
ActualBatchSize(kind, batchSize) == Min(batchSize, MaxBatch(kind))

CeilDiv(a, b) == (a + b - 1) \div b
\* Math.ceil(total / size); size = 0 is told apart by LoopContinues
BatchCount(total, size) ==
    IF size > 0 THEN CeilDiv(total, size)
    ELSE IF size < 0 THEN 0 - (total \div (0 - size)) ELSE 0

\* i < batchCount, where total / 0 is Infinity
LoopContinues(i, total, size) == IF size = 0 THEN TRUE ELSE i < BatchCount(total, size)

\* after the probe: `if (total === 0) return []`, else the for loop's first test
\* (faulty variant: a first page is always requested)
SweepHasPagesMut(total, size) == TRUE
SweepHasPages(total, size) == total # 0 /\ LoopContinues(0, total, size)

\* the limit a page request carries: getLikedTracks clamps once more
PageLimit(kind, size) == IF kind = "liked" THEN Min(size, LikedPageLimit) ELSE size

\* the collections are empty, small, or one item larger than a full page
RemoteClasses == (0..MaxCacheTotal) \cup {MaxCacheTotal + 1}
RemoteSize(k, c) == IF c <= MaxCacheTotal THEN c ELSE MaxBatch(KindOf(k)) + 1

\* what the sweep appends for a page
Appended(kind, items) == IF kind = "liked" THEN MapSeq(items, TrackOf) ELSE items

\* ------------------------------------------------------------------ processes
IdleProc ==
    [op |-> "idle", pc |-> "idle", status |-> "idle", error |-> "none",
     key |-> "liked", force |-> FALSE, batch |-> 0,
     total |-> 0, size |-> 0, i |-> 0, acc |-> <<>>, log |-> <<>>,
     meta |-> 0, sweeps |-> 0, progress |-> <<>>,
     result |-> <<>>, wrote |-> FALSE, hit |-> FALSE,
     api |-> 0, ipc |-> "none", icreds |-> NoCreds, root |-> 0, child |-> 0,
     msg |-> <<>>]

FetchOps == {"fetchLiked", "fetchPlaylist", "fetchAlbum"}
SweepOps == FetchOps \cup {"getAll", "loadLiked"}

FetchOp(k) ==
    IF KindOf(k) = "liked" THEN "fetchLiked"
    ELSE IF KindOf(k) = "playlist" THEN "fetchPlaylist" ELSE "fetchAlbum"

FetchBatch(k) ==
    IF KindOf(k) = "liked" THEN LikedFetchBatch
    ELSE IF KindOf(k) = "playlist" THEN PlaylistDefaultBatch ELSE AlbumDefaultBatch

Running(p) == proc[p].status = "run"

\* no operation runs in slot p, and none that runs refers to what p holds
Free(p) ==
    /\ proc[p].status # "run"
    /\ \A q \in Procs \ {p} : Running(q) => (proc[q].root # p /\ proc[q].child # p)
Kind(p) == KindOf(proc[p].key)

Set(p, r) == proc' = [proc EXCEPT ![p] = r]

\* a rejected operation keeps what it was, how far it got and whether it stored
Failed(r, why) ==
    [IdleProc EXCEPT !.op = r.op, !.key = r.key, !.force = r.force, !.root = r.root,
                     !.child = r.child, !.sweeps = r.sweeps, !.i = r.i, !.wrote = r.wrote,
                     !.status = "failed", !.pc = "end", !.error = why]
Done(r, res) == [r EXCEPT !.status = "done", !.pc = "end", !.result = res]

\* the requests a sweep has issued: the probe, then the pages
Probes(r) == SelectSeq(r.log, LAMBDA e : e.probe)
Pages(r) == SelectSeq(r.log, LAMBDA e : ~e.probe)

\* ------------------------------------------------------- initializeSpotify
IsExpired(c, t) == IF c.expires_at # 0 THEN c.expires_at < t ELSE TRUE

\* what initializeSpotify does with the credentials it has read: "null" (return
\* null), "refresh" (call refresh_spotify_token) or "ok" (build the instance)
InitOutcome(c, t) ==
    IF c.access = 0 THEN "null"
    ELSE IF IsExpired(c, t) /\ c.refresh # 0 THEN "refresh"
    ELSE IF IsExpired(c, t) THEN "null"
    ELSE "ok"

\* the SpotifyApi object a catalog function holds for its request: the one its own
\* initializeSpotify call returned, else the module's singleton
Token(p) == IF proc[p].api # 0 THEN proc[p].api ELSE spotifyApiInstance

\* where a catalog function starts with `await initializeSpotify()`
AtGate(p) == Running(p) /\ proc[p].pc \in {"probe", "page", "meta", "init"}

\* error messages, letter by letter
NotAuthenticatedMessage ==
    <<"N", "o", "t", " ", "a", "u", "t", "h", "e", "n", "t", "i", "c", "a", "t", "e", "d", " ",
      "w", "i", "t", "h", " ", "S", "p", "o", "t", "i", "f", "y">>

\* initializeSpotify has returned null to r: a catalog function throws
\* "Not authenticated with Spotify" (caught by the view that called it),
\* refreshAuthStatus goes on with null
InitNull(r) ==
    IF r.op = "view" THEN [r EXCEPT !.pc = "catch", !.error = "auth", !.ipc = "none",
                                    !.msg = NotAuthenticatedMessage]
    ELSE IF r.op = "refreshAuth" THEN [r EXCEPT !.pc = "null", !.ipc = "none"]
    ELSE Failed(r, "auth")

\* the call has passed `if (spotifyApiInstance)` at its start
PastInstanceCheck(p) == proc[p].op \in {"init", "refreshAuth"} \/ spotifyApiInstance = 0

\* initializeSpotify found no instance and has read settings and credentials
InitReadCreds(p) ==
    /\ AtGate(p) /\ proc[p].api = 0 /\ proc[p].ipc = "none"
    /\ PastInstanceCheck(p)
    /\ LET o == InitOutcome(creds, now)
           r == proc[p]
       IN  /\ spotifyApiInstance' = IF o = "ok" THEN creds.access ELSE spotifyApiInstance
           /\ Set(p, IF o = "ok" THEN [r EXCEPT !.api = creds.access]
                     ELSE IF o = "refresh" THEN [r EXCEPT !.ipc = "refresh"]
                     ELSE InitNull(r))
    /\ UNCHANGED <<creds, issued, now, isAuthenticated, spotifyApi, lastRefreshTime,
                   authCredentials, authIsAuthenticated>>
    /\ UNCHANGED <<cacheVars, viewVars, remoteVars, pageVars, downloadVars>>
    /\ UNCHANGED ops

\* get_settings or get_credentials rejects: initializeSpotify logs and returns null
InitReadFail(p) ==
    /\ AtGate(p) /\ proc[p].api = 0 /\ proc[p].ipc = "none"
    /\ PastInstanceCheck(p)
    /\ Set(p, InitNull(proc[p]))
    /\ UNCHANGED <<sessionVars, cacheVars, viewVars, remoteVars, pageVars, downloadVars>>
    /\ UNCHANGED ops

\* ------------------------------------------------------------------- sweeps
AfterPc(op) == IF op = "fetchAlbum" THEN "meta" ELSE "after"

\* the api object kept for the next request: getAllPlaylistTracks and
\* getAllAlbumTracks keep `spotify`, the liked functions ask for it at every call
KeptApi(kind, tok) == IF kind = "liked" THEN 0 ELSE tok

\* getLikedTracksCount / the firstPage request: reads the total; the collection
\* holds n items when the request is served
Probe(p, n) ==
    /\ Running(p) /\ proc[p].pc = "probe" /\ Token(p) # 0
    /\ LET r == proc[p]
           kind == Kind(p)
           size == ActualBatchSize(kind, r.batch)
           more == SweepHasPages(n, size)
           r1 == [r EXCEPT !.total = n, !.size = size, !.i = 0, !.acc = <<>>,
                           !.log = Append(@, [probe |-> TRUE, limit |-> ProbeLimit,
                                              offset |-> 0, len |-> PageLen(n, ProbeLimit, 0)]),
                           !.api = IF more THEN KeptApi(kind, Token(p)) ELSE 0,
                           !.pc = IF more THEN "page" ELSE AfterPc(r.op)]
       IN  proc' = [proc EXCEPT ![p] = r1, ![r.root].sweeps = @ + 1]
    /\ UNCHANGED <<sessionVars, cacheVars, viewVars, remoteVars, pageVars, downloadVars>>
    /\ UNCHANGED ops

\* (faulty variant: the offset is that of the page after)
PageOffsetMut(i, size) == (i + 1) * size
\* const offset = i * actualBatchSize
PageOffset(i, size) == i * size

\* (faulty variant: fetchLikedTracks publishes what it has after every page)
PageMut(p, n) ==
    /\ Running(p) /\ proc[p].pc = "page" /\ Token(p) # 0
    /\ LET r == proc[p]
           kind == Kind(p)
           offset == PageOffset(r.i, r.size)
           limit == PageLimit(kind, r.size)
           items == PageItems(kind, n, limit, offset)
           acc2 == r.acc \o Appended(kind, items)
           more == LoopContinues(r.i + 1, r.total, r.size)
       IN  /\ Set(p, [r EXCEPT !.acc = acc2, !.i = @ + 1,
                               !.log = Append(@, [probe |-> FALSE, limit |-> limit,
                                                  offset |-> offset, len |-> Len(items)]),
                               !.progress = IF r.op = "loadLiked" THEN <<Len(acc2), r.total>> ELSE @,
                               !.api = IF more THEN KeptApi(kind, Token(p)) ELSE 0,
                               !.pc = IF more THEN "page" ELSE AfterPc(r.op)])
           /\ loadingProgress' = IF r.op = "loadLiked" THEN <<Len(acc2), r.total>>
                                 ELSE loadingProgress
           /\ likedTracks' = IF r.op = "fetchLiked" THEN Some(acc2) ELSE likedTracks
    /\ UNCHANGED <<sessionVars, playlistTracksCache, albumTracksCache, tracks, remoteVars,
                   pageVars, downloadVars>>
    /\ UNCHANGED ops

\* one iteration of the for loop: request the page at i * actualBatchSize, append;
\* the collection holds n items when the request is served
Page(p, n) ==
    /\ Running(p) /\ proc[p].pc = "page" /\ Token(p) # 0
    /\ LET r == proc[p]
           kind == Kind(p)
           offset == PageOffset(r.i, r.size)
           limit == PageLimit(kind, r.size)
           items == PageItems(kind, n, limit, offset)
           acc2 == r.acc \o Appended(kind, items)
           more == LoopContinues(r.i + 1, r.total, r.size)
       IN  /\ Set(p, [r EXCEPT !.acc = acc2, !.i = @ + 1,
                               !.log = Append(@, [probe |-> FALSE, limit |-> limit,
                                                  offset |-> offset, len |-> Len(items)]),
                               !.progress = IF r.op = "loadLiked" THEN <<Len(acc2), r.total>> ELSE @,
                               !.api = IF more THEN KeptApi(kind, Token(p)) ELSE 0,
                               !.pc = IF more THEN "page" ELSE AfterPc(r.op)])
           /\ loadingProgress' = IF r.op = "loadLiked" THEN <<Len(acc2), r.total>>
                                 ELSE loadingProgress
    /\ UNCHANGED <<sessionVars, cacheVars, tracks, remoteVars, pageVars, downloadVars>>
    /\ UNCHANGED ops

\* (faulty variant: fetchLikedTracks stores what was read before the failure)
RequestFailMut(p) ==
    /\ Running(p) /\ proc[p].pc \in {"probe", "page", "meta"} /\ Token(p) # 0
    /\ Set(p, Failed(proc[p], "remote"))
    /\ likedTracks' = IF proc[p].op = "fetchLiked" THEN Some(proc[p].acc) ELSE likedTracks
    /\ UNCHANGED <<sessionVars, playlistTracksCache, albumTracksCache, viewVars, remoteVars, pageVars,
                   downloadVars>>
    /\ UNCHANGED ops

\* a catalog request (probe, page or getAlbum) rejects: the sweep throws, the
\* fetch function logs and rethrows
RequestFail(p) ==
    /\ Running(p) /\ proc[p].pc \in {"probe", "page", "meta"} /\ Token(p) # 0
    /\ Set(p, Failed(proc[p], "remote"))
    /\ UNCHANGED <<sessionVars, cacheVars, viewVars, remoteVars, pageVars, downloadVars>>
    /\ UNCHANGED ops

\* fetchLikedTracks after the sweep: setLikedTracks(tracks); return tracks
StoreLiked(p) ==
    /\ Running(p) /\ proc[p].op = "fetchLiked" /\ proc[p].pc = "after"
    /\ likedTracks' = Some(proc[p].acc)
    /\ Set(p, Done([proc[p] EXCEPT !.wrote = TRUE], proc[p].acc))
    /\ UNCHANGED <<sessionVars, playlistTracksCache, albumTracksCache, viewVars, remoteVars, pageVars,
                   downloadVars>>
    /\ UNCHANGED ops

\* fetchPlaylistTracks after the sweep: items.map(item => item.track), cache, return
StorePlaylist(p) ==
    /\ Running(p) /\ proc[p].op = "fetchPlaylist" /\ proc[p].pc = "after"
    /\ LET ts == MapSeq(proc[p].acc, TrackOf)
       IN  /\ playlistTracksCache' = [playlistTracksCache EXCEPT ![proc[p].key] = Some(ts)]
           /\ Set(p, Done([proc[p] EXCEPT !.wrote = TRUE], ts))
    /\ UNCHANGED <<sessionVars, likedTracks, albumTracksCache, viewVars, remoteVars, pageVars,
                   downloadVars>>
    /\ UNCHANGED ops

\* fetchAlbumTracks after the sweep: getAlbum, then map, cache, return
StoreAlbum(p) ==
    /\ Running(p) /\ proc[p].op = "fetchAlbum" /\ proc[p].pc = "meta" /\ Token(p) # 0
    /\ LET ts == MapSeq(proc[p].acc, LAMBDA t : AlbumTrack(proc[p].key, t))
       IN  /\ albumTracksCache' = [albumTracksCache EXCEPT ![proc[p].key] = Some(ts)]
           /\ Set(p, Done([proc[p] EXCEPT !.wrote = TRUE, !.meta = @ + 1], ts))
    /\ UNCHANGED <<sessionVars, likedTracks, playlistTracksCache, viewVars, remoteVars, pageVars,
                   downloadVars>>
    /\ UNCHANGED ops

\* a direct call of getAllLikedTracks / getAllPlaylistTracks / getAllAlbumTracks returns
SweepReturn(p) ==
    /\ Running(p) /\ proc[p].op = "getAll" /\ proc[p].pc = "after"
    /\ Set(p, Done(proc[p], proc[p].acc))
    /\ UNCHANGED <<sessionVars, cacheVars, viewVars, remoteVars, pageVars, downloadVars>>
    /\ UNCHANGED ops

\* --------------------------------------------------- operations being started
NewProc(p, op, k, f, b) ==
    [IdleProc EXCEPT !.op = op, !.key = k, !.force = f, !.batch = b, !.root = p,
                     !.status = "run", !.pc = "probe"]

\* fetchLikedTracks / fetchPlaylistTracks / fetchAlbumTracks: the entry is returned
FetchHit(p, k, f) ==
    /\ ops < MaxOps /\ ops' = ops + 1
    /\ Free(p)
    /\ CacheHit(k, f)
    /\ Set(p, Done([NewProc(p, FetchOp(k), k, f, 0) EXCEPT !.hit = TRUE], Entry(k).items))
    /\ UNCHANGED <<sessionVars, cacheVars, viewVars, remoteVars, pageVars, downloadVars>>

\* ... or a sweep is started
FetchMiss(p, k, f) ==
    /\ ops < MaxOps /\ ops' = ops + 1
    /\ Free(p)
    /\ ~CacheHit(k, f)
    /\ Set(p, NewProc(p, FetchOp(k), k, f, FetchBatch(k)))
    /\ UNCHANGED <<sessionVars, cacheVars, viewVars, remoteVars, pageVars, downloadVars>>

\* getAll*Tracks called with batch size b
GetAllStart(p, k, b) ==
    /\ ops < MaxOps /\ ops' = ops + 1
    /\ Free(p)
    /\ Set(p, NewProc(p, "getAll", k, TRUE, b))
    /\ UNCHANGED <<sessionVars, cacheVars, viewVars, remoteVars, pageVars, downloadVars>>

\* SpotifyContent.loadLikedTracks(forceRefresh): calls fetchLikedTracks (process q)
\* and, when forced, getAllLikedTracks(50, onProgress) itself
LoadLikedStart(p, q, f) ==
    /\ ops < MaxOps /\ ops' = ops + 1
    /\ p # q /\ Free(p) /\ Free(q)
    /\ LET child == IF CacheHit("liked", f)
                    THEN Done([NewProc(p, "fetchLiked", "liked", f, 0) EXCEPT !.hit = TRUE],
                              likedTracks.items)
                    ELSE NewProc(p, "fetchLiked", "liked", f, LikedFetchBatch)
           parent == [NewProc(p, "loadLiked", "liked", f, LoadLikedBatch) EXCEPT
                          !.child = q, !.pc = IF f THEN "probe" ELSE "await"]
       IN  proc' = [proc EXCEPT ![p] = parent, ![q] = child]
    /\ loadingProgress' = <<>>
    /\ UNCHANGED <<sessionVars, cacheVars, tracks, remoteVars, pageVars, downloadVars>>

\* not forced: `await likedTracksPromise` resolves, setTracks(cachedTracks)
LoadLikedAwaitOk(p) ==
    /\ Running(p) /\ proc[p].op = "loadLiked" /\ proc[p].pc = "await"
    /\ proc[proc[p].child].status = "done"
    /\ tracks' = proc[proc[p].child].result
    /\ loadingProgress' = <<>>
    /\ proc' = [proc EXCEPT ![p] = Done(@, proc[proc[p].child].result),
                            ![proc[p].child] = IdleProc]
    /\ UNCHANGED <<sessionVars, cacheVars, remoteVars, pageVars, downloadVars>>
    /\ UNCHANGED ops

\* not forced: the promise rejects, loadLikedTracks rethrows
LoadLikedAwaitFail(p) ==
    /\ Running(p) /\ proc[p].op = "loadLiked" /\ proc[p].pc = "await"
    /\ proc[proc[p].child].status = "failed"
    /\ loadingProgress' = <<>>
    /\ proc' = [proc EXCEPT ![p] = Failed(@, proc[proc[p].child].error),
                            ![proc[p].child] = IdleProc]
    /\ UNCHANGED <<sessionVars, cacheVars, tracks, remoteVars, pageVars, downloadVars>>
    /\ UNCHANGED ops

\* forced: the view's own sweep returned, setTracks(allTracks)
LoadLikedFinish(p) ==
    /\ Running(p) /\ proc[p].op = "loadLiked" /\ proc[p].pc = "after"
    /\ tracks' = proc[p].acc
    /\ loadingProgress' = <<>>
    /\ Set(p, Done(proc[p], proc[p].acc))
    /\ UNCHANGED <<sessionVars, cacheVars, remoteVars, pageVars, downloadVars>>
    /\ UNCHANGED ops

\* ------------------------------------------------------------------- logout
\* SpotifyContext.logout: get_credentials has answered
LogoutGet(p) ==
    /\ ops < MaxOps /\ ops' = ops + 1
    /\ Free(p)
    /\ Set(p, [IdleProc EXCEPT !.op = "logout", !.status = "run", !.pc = "save",
                               !.root = p, !.icreds = creds])
    /\ UNCHANGED <<sessionVars, cacheVars, viewVars, remoteVars, pageVars, downloadVars>>

\* get_credentials rejects: the catch block logs, nothing is reset
LogoutGetFail(p) ==
    /\ ops < MaxOps /\ ops' = ops + 1
    /\ Free(p)
    /\ Set(p, Done([IdleProc EXCEPT !.op = "logout", !.root = p, !.error = "io"], <<>>))
    /\ UNCHANGED <<sessionVars, cacheVars, viewVars, remoteVars, pageVars, downloadVars>>

\* save_credentials has stored the copy without the tokens; resetSpotifyApi();
\* setIsAuthenticated(false); setSpotifyApi(null)
LogoutSave(p) ==
    /\ Running(p) /\ proc[p].op = "logout" /\ proc[p].pc = "save"
    /\ creds' = WithoutTokens(proc[p].icreds)
    /\ spotifyApiInstance' = 0
    /\ isAuthenticated' = FALSE
    /\ spotifyApi' = 0
    /\ Set(p, Done(proc[p], <<>>))
    /\ UNCHANGED <<issued, now, lastRefreshTime, authCredentials, authIsAuthenticated>>
    /\ UNCHANGED <<cacheVars, viewVars, remoteVars, pageVars, downloadVars>>
    /\ UNCHANGED ops

\* save_credentials rejects: the catch block logs, nothing is reset
LogoutSaveFail(p) ==
    /\ Running(p) /\ proc[p].op = "logout" /\ proc[p].pc = "save"
    /\ Set(p, Done([proc[p] EXCEPT !.error = "io"], <<>>))
    /\ UNCHANGED <<sessionVars, cacheVars, viewVars, remoteVars, pageVars, downloadVars>>
    /\ UNCHANGED ops

\* clearLikedTracksCache(): offered by the provider, called by no component
ClearLikedTracksCache ==
    /\ likedTracks' = Absent
    /\ UNCHANGED <<sessionVars, playlistTracksCache, albumTracksCache, viewVars, remoteVars, pageVars,
                   procVars, downloadVars>>

\* -------------------------------------------------------------- environment
\* lifetime of an access token
TokenTtl == 3600

\* the authorization callback has stored a new token pair
Authorize ==
    /\ issued < MaxTokens
    /\ issued' = issued + 1
    /\ creds' = [creds EXCEPT !.access = issued + 1, !.refresh = issued + 1,
                              !.expires_at = now + TokenTtl]
    /\ UNCHANGED <<now, spotifyApiInstance, isAuthenticated, spotifyApi, lastRefreshTime,
                   authCredentials, authIsAuthenticated>>
    /\ UNCHANGED <<cacheVars, viewVars, remoteVars, pageVars, procVars, downloadVars>>

\* the authorization stores an access token without a refresh token, with or
\* without an expiry (Credentials.spotify_refresh_token is nullable)
AuthorizeAccessOnly ==
    /\ issued < MaxTokens
    /\ issued' = issued + 1
    /\ \E e \in {0, now + TokenTtl} :
         creds' = [creds EXCEPT !.access = issued + 1, !.refresh = 0, !.expires_at = e]
    /\ UNCHANGED <<now, spotifyApiInstance, isAuthenticated, spotifyApi, lastRefreshTime,
                   authCredentials, authIsAuthenticated>>
    /\ UNCHANGED <<cacheVars, viewVars, remoteVars, pageVars, procVars, downloadVars>>

\* ------------------------------------------------------------ initial states
\* the clock starts beyond the debounce window of refreshAuthStatus, as Date.now() does
NoFlow == [isAuthenticating |-> FALSE, started |-> 0, succeeded |-> FALSE]

\* the state after construction, the credential store apart
InitRest ==
    /\ now = DebounceMs
    /\ spotifyApiInstance = 0
    /\ isAuthenticated = FALSE /\ spotifyApi = 0 /\ lastRefreshTime = 0
    /\ likedTracks = Absent
    /\ playlistTracksCache = [k \in PlaylistIds |-> Absent]
    /\ albumTracksCache = [k \in AlbumIds |-> Absent]
    /\ authCredentials = <<>> /\ authIsAuthenticated = FALSE
    /\ settingsCredentials = NoCreds /\ authFlow = NoFlow
    /\ tracks = <<>> /\ loadingProgress = <<>>
    /\ proc = [p \in Procs |-> IdleProc] /\ ops = 0
    /\ downloads = <<>> /\ registry = <<>> /\ nextTaskId = 1
    /\ inflight = <<>> /\ reply = <<>> /\ canceling = 0 /\ cancelRaised = FALSE

InitCommon ==
    /\ creds = NoCreds /\ issued = 0
    /\ InitRest

\* ---------------------------------------------------- SpecSweep: one operation
BatchArgs == (1..MaxBatchArg) \cup {LikedMaxBatch, LikedMaxBatch + 1,
                                    PlaylistMaxBatch, PlaylistMaxBatch + 1}
SweepTotals == (0..MaxTotal) \cup {LikedMaxBatch + 1, PlaylistMaxBatch + 1}

InitSweep ==
    /\ InitCommon
    /\ \E n \in SweepTotals : remote = [k \in Keys |-> n]

AllIdle == \A p \in Procs : proc[p].op = "idle"

SweepSteps(p) ==
    \/ InitReadCreds(p)
    \/ InitReadFail(p)
    \/ Probe(p, remote[proc[p].key])
    \/ Page(p, remote[proc[p].key])
    \/ RequestFail(p)
    \/ StoreLiked(p)
    \/ StorePlaylist(p)
    \/ StoreAlbum(p)

NextSweep ==
    \/ Authorize
    \/ \E k \in Keys, b \in BatchArgs : AllIdle /\ GetAllStart(1, k, b)
    \/ \E k \in Keys, f \in BOOLEAN : AllIdle /\ FetchMiss(1, k, f)
    \/ \E p \in Procs : SweepSteps(p)
    \/ \E p \in Procs : SweepReturn(p)

SpecSweep == InitSweep /\ [][NextSweep]_vars

\* ------------------------- SpecTerminate: one sweep, any batch-size argument
\* the batch-size argument is a number: zero and negative ones included
AnyBatchArgs == (0 - 1)..MaxBatchArg

\* one iteration of the for loop in two steps: the page request is sent ...
PageRequest(p) ==
    /\ Running(p) /\ proc[p].pc = "page" /\ Token(p) # 0
    /\ Set(p, [proc[p] EXCEPT !.pc = "wait"])
    /\ UNCHANGED <<sessionVars, cacheVars, viewVars, remoteVars, pageVars, downloadVars>>
    /\ UNCHANGED ops

\* ... and answered: the items are appended and the loop's test is made. With
\* actualBatchSize = 0 neither the offset nor the test depends on i, and the
\* model stops counting the iterations and the requests at MaxPages.
PageAnswer(p) ==
    /\ Running(p) /\ proc[p].pc = "wait"
    /\ LET r == proc[p]
           kind == Kind(p)
           offset == PageOffset(r.i, r.size)
           limit == PageLimit(kind, r.size)
           items == PageItems(kind, remote[r.key], limit, offset)
           acc2 == r.acc \o Appended(kind, items)
           more == LoopContinues(r.i + 1, r.total, r.size)
           counted == r.size # 0 \/ Len(Pages(r)) < MaxPages
       IN  Set(p, [r EXCEPT !.acc = acc2,
                            !.i = IF counted THEN @ + 1 ELSE @,
                            !.log = IF counted
                                    THEN Append(@, [probe |-> FALSE, limit |-> limit,
                                                    offset |-> offset, len |-> Len(items)])
                                    ELSE @,
                            !.api = IF more THEN KeptApi(kind, Token(p)) ELSE 0,
                            !.pc = IF more THEN "page" ELSE AfterPc(r.op)])
    /\ UNCHANGED <<sessionVars, cacheVars, viewVars, remoteVars, pageVars, downloadVars>>
    /\ UNCHANGED ops

\* ... or rejected: the sweep throws
PageReject(p) ==
    /\ Running(p) /\ proc[p].pc = "wait"
    /\ Set(p, Failed(proc[p], "remote"))
    /\ UNCHANGED <<sessionVars, cacheVars, viewVars, remoteVars, pageVars, downloadVars>>
    /\ UNCHANGED ops

InitTerminate ==
    /\ InitCommon
    /\ \E n \in 0..MaxTotal : remote = [k \in Keys |-> n]

NextTerminate ==
    \/ Authorize
    \/ \E k \in Keys, b \in AnyBatchArgs : AllIdle /\ GetAllStart(1, k, b)
    \/ \E p \in Procs : InitReadCreds(p)
    \/ \E p \in Procs : Probe(p, remote[proc[p].key])
    \/ \E p \in Procs : PageRequest(p)
    \/ \E p \in Procs : PageAnswer(p)
    \/ \E p \in Procs : PageReject(p)
    \/ \E p \in Procs : RequestFail(p)
    \/ \E p \in Procs : SweepReturn(p)

\* every request is answered in the end; no request is bound to fail
FairTerminate ==
    \A p \in Procs :
        /\ WF_vars(InitReadCreds(p))
        /\ WF_vars(Probe(p, remote[proc[p].key]))
        /\ WF_vars(PageRequest(p))
        /\ WF_vars(PageAnswer(p))
        /\ WF_vars(SweepReturn(p))

SpecTerminate == InitTerminate /\ [][NextTerminate]_vars /\ FairTerminate

\* ------------------- SpecDrift: the collection changes while it is being read
\* the sizes the collection may have when a request is served
DriftSizes == 0..MaxTotal

NextDrift ==
    \/ Authorize
    \/ \E k \in Keys, b \in 1..MaxBatchArg : AllIdle /\ GetAllStart(1, k, b)
    \/ AllIdle /\ LoadLikedStart(1, 2, TRUE)
    \/ \E p \in Procs : InitReadCreds(p)
    \/ \E p \in Procs, n \in DriftSizes : Probe(p, n)
    \/ \E p \in Procs, n \in DriftSizes : Page(p, n)
    \/ \E p \in Procs : RequestFail(p)
    \/ \E p \in Procs : StoreLiked(p)
    \/ \E p \in Procs : LoadLikedFinish(p)
    \/ \E p \in Procs : SweepReturn(p)

\* `remote` is the size at the start; the requests see the sizes drawn above
InitDrift == InitCommon /\ remote = [k \in Keys |-> 0]

SpecDrift == InitDrift /\ [][NextDrift]_vars

\* ------------------------------------- SpecCache: operations that overlap
InitCache ==
    /\ InitCommon
    /\ \E c \in RemoteClasses : remote = [k \in Keys |-> RemoteSize(k, c)]

CacheSteps(p) ==
    \/ InitReadCreds(p)
    \/ Probe(p, remote[proc[p].key])
    \/ Page(p, remote[proc[p].key])
    \/ RequestFail(p)
    \/ StoreLiked(p)
    \/ StorePlaylist(p)
    \/ StoreAlbum(p)

NextCache ==
    \/ creds.access = 0 /\ Authorize
    \/ \E p \in Procs, k \in Keys, f \in BOOLEAN : FetchHit(p, k, f)
    \/ \E p \in Procs, k \in Keys, f \in BOOLEAN : FetchMiss(p, k, f)
    \/ \E p \in Procs, q \in Procs, f \in BOOLEAN : LoadLikedStart(p, q, f)
    \/ \E p \in Procs : CacheSteps(p)
    \/ \E p \in Procs : LoadLikedAwaitOk(p)
    \/ \E p \in Procs : LoadLikedAwaitFail(p)
    \/ \E p \in Procs : LoadLikedFinish(p)
    \/ \E p \in Procs : LogoutGet(p)
    \/ \E p \in Procs : LogoutSave(p)

SpecCache == InitCache /\ [][NextCache]_vars


\* ================================================================ downloads
\* ------------------------------------------------ the backend's registry
ActiveStatuses == {"Queued", "Searching", "InProgress"}
TerminalStatuses == {"Completed", "Failed", "Canceled"}

IsActive(d) == d.status \in ActiveStatuses

\* the edges of the task state machine
Edge(a, b) ==
    \/ a = "Queued" /\ b = "Searching"
    \/ a = "Searching" /\ b = "InProgress"
    \/ a = "InProgress" /\ b \in {"InProgress", "Completed"}
    \/ a \in ActiveStatuses /\ b \in {"Failed", "Canceled"}

Ids(list) == {list[i].id : i \in 1..Len(list)}
Find(list, id) == list[CHOOSE i \in 1..Len(list) : list[i].id = id]
SetStatus(list, id, st) ==
    [i \in 1..Len(list) |-> IF list[i].id = id THEN [list[i] EXCEPT !.status = st] ELSE list[i]]

Event(type, payload) == [type |-> type, payload |-> payload]
CanEmit == Len(inflight) < MaxInFlight

\* the registry moves task id to status st and emits the event of that change
Transition(id, st, type) ==
    /\ CanEmit
    /\ id \in Ids(registry) /\ Edge(Find(registry, id).status, st)
    /\ registry' = SetStatus(registry, id, st)
    /\ inflight' = Append(inflight, Event(type, Find(registry', id)))

DownloadFrame == UNCHANGED <<sessionVars, cacheVars, viewVars, remoteVars, pageVars, procVars>>

\* a Download as registered: file_path 0 is none; a multi-item task knows its total
NewTask(id, multi, n) ==
    [id |-> id, status |-> "Queued", console_logs |-> <<>>, file_path |-> 0,
     is_playlist |-> multi, total_tracks |-> n, completed_tracks |-> 0, failed_tracks |-> 0]

\* where the helper has written the download
OutputPath(id) == id

\* execute_sldl: the task is registered newest first, download:started is emitted
Register(multi, n) ==
    /\ CanEmit /\ nextTaskId <= MaxTasks
    /\ LET d == NewTask(nextTaskId, multi, n)
       IN  /\ registry' = <<d>> \o registry
           /\ inflight' = Append(inflight, Event("download:started", d))
    /\ nextTaskId' = nextTaskId + 1

\* a single-item download is submitted
Submit ==
    /\ Register(FALSE, 0)
    /\ UNCHANGED <<downloads, reply, canceling, cancelRaised>>
    /\ DownloadFrame

\* the helper reports searching, downloading or more progress
Advance(id) ==
    /\ \E st \in ActiveStatuses : Transition(id, st, "download:progress")
    /\ UNCHANGED <<downloads, nextTaskId, reply, canceling, cancelRaised>>
    /\ DownloadFrame

\* the helper has finished: the task is Completed and carries its output path
Complete(id) ==
    /\ CanEmit
    /\ id \in Ids(registry) /\ Edge(Find(registry, id).status, "Completed")
    /\ registry' = [i \in 1..Len(registry) |->
                      IF registry[i].id = id
                      THEN [registry[i] EXCEPT !.status = "Completed", !.file_path = OutputPath(id)]
                      ELSE registry[i]]
    /\ inflight' = Append(inflight, Event("download:completed", Find(registry', id)))
    /\ UNCHANGED <<downloads, nextTaskId, reply, canceling, cancelRaised>>
    /\ DownloadFrame

Fail(id) ==
    /\ Transition(id, "Failed", "download:failed")
    /\ UNCHANGED <<downloads, nextTaskId, reply, canceling, cancelRaised>>
    /\ DownloadFrame

\* the helper prints a line: appended to every task that is not terminal, sldl:stdout
HelperOutput ==
    /\ CanEmit
    /\ \E i \in 1..Len(registry) : IsActive(registry[i])
    /\ \A i \in 1..Len(registry) : Len(registry[i].console_logs) < MaxLogLen
    /\ registry' = [i \in 1..Len(registry) |->
                      IF IsActive(registry[i])
                      THEN [registry[i] EXCEPT !.console_logs = Append(@, "line")]
                      ELSE registry[i]]
    /\ inflight' = Append(inflight, Event("sldl:stdout", "line"))
    /\ UNCHANGED <<downloads, nextTaskId, reply, canceling, cancelRaised>>
    /\ DownloadFrame

\* --------------------------------------------------- DownloadsPage listeners
Delivered(type) ==
    /\ inflight # <<>> /\ Head(inflight).type = type
    /\ inflight' = Tail(inflight)

\* (faulty variant: only the status is taken from the event)
ReplaceByIdMut(prev, payload) ==
    [i \in 1..Len(prev) |-> IF prev[i].id = payload.id
                            THEN [prev[i] EXCEPT !.status = payload.status] ELSE prev[i]]
\* prev.map(download => download.id === payload.id ? payload : download)
ReplaceById(prev, payload) ==
    [i \in 1..Len(prev) |-> IF prev[i].id = payload.id THEN payload ELSE prev[i]]

ListenerFrame ==
    /\ UNCHANGED <<registry, nextTaskId, reply, canceling, cancelRaised>>
    /\ DownloadFrame

OnStarted ==
    /\ Delivered("download:started")
    /\ downloads' = <<Head(inflight).payload>> \o downloads
    /\ ListenerFrame

OnProgress ==
    /\ Delivered("download:progress")
    /\ downloads' = ReplaceById(downloads, Head(inflight).payload)
    /\ ListenerFrame

OnCompleted ==
    /\ Delivered("download:completed")
    /\ downloads' = ReplaceById(downloads, Head(inflight).payload)
    /\ ListenerFrame

OnFailed ==
    /\ Delivered("download:failed")
    /\ downloads' = ReplaceById(downloads, Head(inflight).payload)
    /\ ListenerFrame

OnCanceled ==
    /\ Delivered("download:canceled")
    /\ downloads' = ReplaceById(downloads, Head(inflight).payload)
    /\ ListenerFrame

\* (faulty variant: the line is appended to every download)
OnStdoutMut ==
    /\ Delivered("sldl:stdout")
    /\ downloads' = [i \in 1..Len(downloads) |->
                       [downloads[i] EXCEPT !.console_logs = Append(@, Head(inflight).payload)]]
    /\ ListenerFrame

\* the line is appended to the log of every download shown as active
OnStdout ==
    /\ Delivered("sldl:stdout")
    /\ downloads' = [i \in 1..Len(downloads) |->
                       IF downloads[i].status \in {"Queued", "Searching", "InProgress"}
                       THEN [downloads[i] EXCEPT !.console_logs = Append(@, Head(inflight).payload)]
                       ELSE downloads[i]]
    /\ ListenerFrame

\* ------------------------------------------------- DownloadsPage operations
\* loadDownloads: get_all_downloads is served from the registry as it is now
LoadDownloads ==
    /\ Len(reply) < MaxReplies
    /\ reply' = Append(reply, registry)
    /\ UNCHANGED <<downloads, registry, nextTaskId, inflight, canceling, cancelRaised>>
    /\ DownloadFrame

\* ... and its answer arrives: setDownloads(result)
LoadDownloadsResolve ==
    /\ reply # <<>>
    /\ downloads' = Head(reply)
    /\ reply' = Tail(reply)
    /\ UNCHANGED <<registry, nextTaskId, inflight, canceling, cancelRaised>>
    /\ DownloadFrame

\* ... or the request rejects: logged, the list stays
LoadDownloadsReject ==
    /\ reply # <<>>
    /\ reply' = Tail(reply)
    /\ UNCHANGED <<downloads, registry, nextTaskId, inflight, canceling, cancelRaised>>
    /\ DownloadFrame

\* cancelDownload(id), from the cancel button of a download shown as active
CancelDownload(id) ==
    /\ canceling = 0
    /\ id \in Ids(downloads) /\ \E i \in 1..Len(downloads) : downloads[i].id = id /\ IsActive(downloads[i])
    /\ canceling' = id
    /\ UNCHANGED <<downloads, registry, nextTaskId, inflight, reply, cancelRaised>>
    /\ DownloadFrame

\* cancel_download on a task that is not terminal: the process is stopped, the
\* task is Canceled, download:canceled
CancelServed ==
    /\ canceling # 0
    /\ Transition(canceling, "Canceled", "download:canceled")
    /\ canceling' = 0
    /\ UNCHANGED <<downloads, nextTaskId, reply, cancelRaised>>
    /\ DownloadFrame

\* cancel_download on a task that is terminal or no longer registered: nothing to do
CancelNoOp ==
    /\ canceling # 0
    /\ canceling \in Ids(registry) => ~IsActive(Find(registry, canceling))
    /\ canceling' = 0
    /\ UNCHANGED <<downloads, registry, nextTaskId, inflight, reply, cancelRaised>>
    /\ DownloadFrame

\* (faulty variant: the rejection reaches the caller)
CancelRejectedMut ==
    /\ canceling # 0
    /\ canceling' = 0
    /\ cancelRaised' = TRUE
    /\ UNCHANGED <<downloads, registry, nextTaskId, inflight, reply>>
    /\ DownloadFrame

\* cancel_download rejects: the catch block logs
CancelRejected ==
    /\ canceling # 0
    /\ canceling' = 0
    /\ UNCHANGED <<downloads, registry, nextTaskId, inflight, reply, cancelRaised>>
    /\ DownloadFrame

\* clearCompletedDownloads: clear_completed_downloads removes the terminal tasks,
\* then loadDownloads()
ClearCompletedDownloads ==
    /\ Len(reply) < MaxReplies
    /\ \E i \in 1..Len(registry) : ~IsActive(registry[i])
    /\ registry' = SelectSeq(registry, IsActive)
    /\ reply' = Append(reply, registry')
    /\ UNCHANGED <<downloads, nextTaskId, inflight, canceling, cancelRaised>>
    /\ DownloadFrame

\* clear_completed_downloads rejects: logged, no reload
ClearCompletedRejected ==
    /\ \E i \in 1..Len(registry) : ~IsActive(registry[i])
    /\ UNCHANGED <<downloadVars>>
    /\ DownloadFrame

TaskIds == 1..MaxTasks

NextDownloads ==
    \/ Submit
    \/ \E id \in TaskIds : Advance(id)
    \/ \E id \in TaskIds : Complete(id)
    \/ \E id \in TaskIds : Fail(id)
    \/ HelperOutput
    \/ OnStarted
    \/ OnProgress
    \/ OnCompleted
    \/ OnFailed
    \/ OnCanceled
    \/ OnStdout
    \/ LoadDownloads
    \/ LoadDownloadsResolve
    \/ LoadDownloadsReject
    \/ \E id \in TaskIds : CancelDownload(id)
    \/ CancelServed
    \/ CancelNoOp
    \/ CancelRejected
    \/ ClearCompletedDownloads
    \/ ClearCompletedRejected

InitDownloads ==
    /\ InitCommon
    /\ remote = [k \in Keys |-> 0]

SpecDownloads == InitDownloads /\ [][NextDownloads]_vars



\* ================================================= session and credentials
\* ------------------------------------------- initializeSpotify, called alone
\* `if (spotifyApiInstance) return spotifyApiInstance`, else the reads start
InitStart(p) ==
    /\ ops < MaxOps /\ ops' = ops + 1
    /\ Free(p)
    /\ LET r == [NewProc(p, "init", "liked", FALSE, 0) EXCEPT !.pc = "init"]
       IN  Set(p, IF spotifyApiInstance # 0
                  THEN Done([r EXCEPT !.hit = TRUE, !.api = spotifyApiInstance], <<spotifyApiInstance>>)
                  ELSE r)
    /\ UNCHANGED <<sessionVars, cacheVars, viewVars, remoteVars, pageVars, downloadVars>>

\* refresh_spotify_token has stored a new access token
InitRefreshOk(p) ==
    /\ AtGate(p) /\ proc[p].ipc = "refresh"
    /\ issued < MaxTokens
    /\ issued' = issued + 1
    /\ creds' = [creds EXCEPT !.access = issued + 1, !.expires_at = now + TokenTtl]
    /\ Set(p, [proc[p] EXCEPT !.ipc = "reread"])
    /\ UNCHANGED <<now, spotifyApiInstance, isAuthenticated, spotifyApi, lastRefreshTime,
                   authCredentials, authIsAuthenticated>>
    /\ UNCHANGED <<cacheVars, viewVars, remoteVars, pageVars, downloadVars>>
    /\ UNCHANGED ops

\* refresh_spotify_token, or the read that follows it, rejects: null
InitRefreshFail(p) ==
    /\ AtGate(p) /\ proc[p].ipc \in {"refresh", "reread"}
    /\ Set(p, InitNull(proc[p]))
    /\ UNCHANGED <<sessionVars, cacheVars, viewVars, remoteVars, pageVars, downloadVars>>
    /\ UNCHANGED ops

\* the updated credentials are read: the instance is built from them, or null
InitReread(p) ==
    /\ AtGate(p) /\ proc[p].ipc = "reread"
    /\ spotifyApiInstance' = IF creds.access # 0 THEN creds.access ELSE spotifyApiInstance
    /\ Set(p, IF creds.access # 0 THEN [proc[p] EXCEPT !.api = creds.access, !.ipc = "none"]
              ELSE InitNull(proc[p]))
    /\ UNCHANGED <<creds, issued, now, isAuthenticated, spotifyApi, lastRefreshTime,
                   authCredentials, authIsAuthenticated>>
    /\ UNCHANGED <<cacheVars, viewVars, remoteVars, pageVars, downloadVars>>
    /\ UNCHANGED ops

\* initializeSpotify returns the instance it has built
InitReturn(p) ==
    /\ Running(p) /\ proc[p].op = "init" /\ proc[p].api # 0
    /\ Set(p, Done(proc[p], <<proc[p].api>>))
    /\ UNCHANGED <<sessionVars, cacheVars, viewVars, remoteVars, pageVars, downloadVars>>
    /\ UNCHANGED ops

\* ------------------------------------------------------------- SpotifyAuth
\* the effect on `credentials`: both tokens and an expiry that has not passed
AuthIsExpired(c, t) == IF c.expires_at # 0 THEN c.expires_at * 1000 < t ELSE TRUE

AuthCheck(c, t) ==
    /\ c.access # 0 /\ c.refresh # 0
    /\ ~AuthIsExpired(c, t)

\* loadCredentials: setCredentials(get_credentials), then the effect
LoadCredentials ==
    /\ authCredentials # <<creds>>
    /\ authCredentials' = <<creds>>
    /\ authIsAuthenticated' = AuthCheck(creds, now)
    /\ UNCHANGED <<creds, issued, now, spotifyApiInstance, isAuthenticated, spotifyApi,
                   lastRefreshTime>>
    /\ UNCHANGED <<cacheVars, viewVars, remoteVars, pageVars, procVars, downloadVars>>

\* logoutFromSpotify, from the Disconnect button shown while the panel holds valid
\* tokens: `if (!credentials) return`; the callback server is stopped
DisconnectStart(p) ==
    /\ ops < MaxOps /\ ops' = ops + 1
    /\ Free(p)
    /\ authCredentials # <<>> /\ authIsAuthenticated
    /\ Set(p, [IdleProc EXCEPT !.op = "disconnect", !.status = "run", !.pc = "save",
                               !.root = p, !.icreds = authCredentials[1]])
    /\ UNCHANGED <<sessionVars, cacheVars, viewVars, remoteVars, pageVars, downloadVars>>

\* save_credentials has stored the panel's copy without the tokens
DisconnectSave(p) ==
    /\ Running(p) /\ proc[p].op = "disconnect" /\ proc[p].pc = "save"
    /\ creds' = WithoutTokens(proc[p].icreds)
    /\ Set(p, [proc[p] EXCEPT !.pc = "reload"])
    /\ UNCHANGED <<issued, now, spotifyApiInstance, isAuthenticated, spotifyApi,
                   lastRefreshTime, authCredentials, authIsAuthenticated>>
    /\ UNCHANGED <<cacheVars, viewVars, remoteVars, pageVars, downloadVars>>
    /\ UNCHANGED ops

\* await loadCredentials(); setIsAuthenticated(false)
DisconnectReload(p) ==
    /\ Running(p) /\ proc[p].op = "disconnect" /\ proc[p].pc = "reload"
    /\ authCredentials' = <<creds>>
    /\ authIsAuthenticated' = FALSE
    /\ Set(p, Done(proc[p], <<>>))
    /\ UNCHANGED <<creds, issued, now, spotifyApiInstance, isAuthenticated, spotifyApi,
                   lastRefreshTime>>
    /\ UNCHANGED <<cacheVars, viewVars, remoteVars, pageVars, downloadVars>>
    /\ UNCHANGED ops

\* stop_spotify_callback_server or save_credentials rejects: the catch block
DisconnectFail(p) ==
    /\ Running(p) /\ proc[p].op = "disconnect" /\ proc[p].pc = "save"
    /\ Set(p, Done([proc[p] EXCEPT !.error = "io"], <<>>))
    /\ UNCHANGED <<sessionVars, cacheVars, viewVars, remoteVars, pageVars, downloadVars>>
    /\ UNCHANGED ops

\* time passes: the stored access token expires
Tick ==
    /\ now < MaxTime * (TokenTtl + 1)
    /\ now' = now + TokenTtl + 1
    /\ UNCHANGED <<creds, issued, spotifyApiInstance, isAuthenticated, spotifyApi,
                   lastRefreshTime, authCredentials, authIsAuthenticated>>
    /\ UNCHANGED <<cacheVars, viewVars, remoteVars, pageVars, procVars, downloadVars>>

\* no logout or disconnect is under way
NoLogoutRunning == \A p \in Procs : Running(p) => proc[p].op \notin {"logout", "disconnect"}

NextAuth ==
    \/ creds.access = 0 /\ NoLogoutRunning /\ Authorize
    \/ creds.access = 0 /\ NoLogoutRunning /\ AuthorizeAccessOnly
    \/ Tick
    \/ LoadCredentials
    \/ \E p \in Procs : InitStart(p)
    \/ \E p \in Procs : InitReadCreds(p)
    \/ \E p \in Procs : InitReadFail(p)
    \/ \E p \in Procs : InitRefreshOk(p)
    \/ \E p \in Procs : InitRefreshFail(p)
    \/ \E p \in Procs : InitReread(p)
    \/ \E p \in Procs : InitReturn(p)
    \/ \E p \in Procs : LogoutGet(p)
    \/ \E p \in Procs : LogoutGetFail(p)
    \/ \E p \in Procs : LogoutSave(p)
    \/ \E p \in Procs : LogoutSaveFail(p)
    \/ \E p \in Procs : DisconnectStart(p)
    \/ \E p \in Procs : DisconnectSave(p)
    \/ \E p \in Procs : DisconnectReload(p)
    \/ \E p \in Procs : DisconnectFail(p)

InitAuth ==
    /\ InitCommon
    /\ remote = [k \in Keys |-> 0]

SpecAuth == InitAuth /\ [][NextAuth]_vars

\* ------------------------------------------------------------ SettingsPage
\* loadCredentials: at mount, from Reload Settings and from onAuthSuccess
SettingsLoadCredentials ==
    /\ settingsCredentials # creds
    /\ settingsCredentials' = creds
    /\ UNCHANGED <<sessionVars, cacheVars, viewVars, remoteVars, procVars, downloadVars>>
    /\ UNCHANGED authFlow

\* saveSettings: save_credentials writes the page's copy, tokens included, then
\* the page loads the credentials again
SaveSettings ==
    /\ creds' = [creds EXCEPT !.access = settingsCredentials.access,
                              !.refresh = settingsCredentials.refresh,
                              !.expires_at = settingsCredentials.expires_at]
    /\ settingsCredentials' = creds'
    /\ UNCHANGED authFlow
    /\ UNCHANGED <<issued, now, spotifyApiInstance, isAuthenticated, spotifyApi,
                   lastRefreshTime, authCredentials, authIsAuthenticated>>
    /\ UNCHANGED <<cacheVars, viewVars, remoteVars, procVars, downloadVars>>

NextSettings ==
    \/ creds.access = 0 /\ NoLogoutRunning /\ Authorize
    \/ Tick
    \/ LoadCredentials
    \/ SettingsLoadCredentials
    \/ SaveSettings
    \/ \E p \in Procs : DisconnectStart(p)
    \/ \E p \in Procs : DisconnectSave(p)
    \/ \E p \in Procs : DisconnectReload(p)
    \/ \E p \in Procs : DisconnectFail(p)

SpecSettings == InitAuth /\ [][NextSettings]_vars

\* ------------------------------------- SpotifyAuth: the authorization flow
\* authenticateWithSpotify, from the Connect button (rendered while the panel
\* is not authenticated, disabled while a flow runs): setIsAuthenticating(true),
\* the callback server is started and the browser opened
AuthenticateWithSpotify ==
    /\ ~authIsAuthenticated /\ ~authFlow.isAuthenticating
    /\ authFlow' = [isAuthenticating |-> TRUE, started |-> issued, succeeded |-> FALSE]
    /\ UNCHANGED <<sessionVars, cacheVars, viewVars, remoteVars, procVars, downloadVars>>
    /\ UNCHANGED settingsCredentials

\* ... or a step of it throws: the catch block ends with setIsAuthenticating(false)
AuthenticateFails ==
    /\ ~authIsAuthenticated /\ ~authFlow.isAuthenticating
    /\ authFlow' = [isAuthenticating |-> FALSE, started |-> issued, succeeded |-> FALSE]
    /\ UNCHANGED <<sessionVars, cacheVars, viewVars, remoteVars, procVars, downloadVars>>
    /\ UNCHANGED settingsCredentials

\* the interval's callback: get_credentials answers with an access token;
\* setCredentials, setIsAuthenticating(false), loadCredentials, the success
\* toast, onAuthSuccess (SettingsPage loads the credentials)
PollCredentials ==
    /\ authFlow.isAuthenticating
    /\ creds.access # 0
    /\ authCredentials' = <<creds>>
    /\ authIsAuthenticated' = AuthCheck(creds, now)
    /\ authFlow' = [authFlow EXCEPT !.isAuthenticating = FALSE, !.succeeded = TRUE]
    /\ settingsCredentials' = creds
    /\ UNCHANGED <<creds, issued, now, spotifyApiInstance, isAuthenticated, spotifyApi,
                   lastRefreshTime>>
    /\ UNCHANGED <<cacheVars, viewVars, remoteVars, procVars, downloadVars>>

\* what the credential store holds when the application starts: nothing, or the
\* token pair of an earlier run, expired long ago
StoredAtStart == {NoCreds, [access |-> 1, refresh |-> 1, expires_at |-> 1]}

InitFlow ==
    /\ InitRest
    /\ remote = [k \in Keys |-> 0]
    /\ creds \in StoredAtStart
    /\ issued = creds.access

NextFlow ==
    \/ authFlow.isAuthenticating /\ Authorize
    \/ Tick
    \/ LoadCredentials
    \/ AuthenticateWithSpotify
    \/ AuthenticateFails
    \/ PollCredentials
    \/ \E p \in Procs : DisconnectStart(p)
    \/ \E p \in Procs : DisconnectSave(p)
    \/ \E p \in Procs : DisconnectReload(p)
    \/ \E p \in Procs : DisconnectFail(p)

SpecFlow == InitFlow /\ [][NextFlow]_vars

\* ------------------------------------------- refreshAuthStatus and the view
AuthNeedle == <<"a", "u", "t", "h", "e", "n", "t", "i", "c", "a", "t", "i", "o", "n">>

\* what the SDK may put into a rejected request's message: the word
\* "authentication" or not
RemoteMessages == {<<"4", "0", "1">>, AuthNeedle \o <<" ", "f", "a", "i", "l", "e", "d">>}

\* String.prototype.includes
Includes(hay, needle) ==
    \E i \in 1..(Len(hay) - Len(needle) + 1) : SubSeq(hay, i, i + Len(needle) - 1) = needle

\* now - lastRefreshTimeRef.current < 2000
Debounced == now - lastRefreshTime < DebounceMs

\* refreshAuthStatus up to its first await, in slot q: the state it has read is
\* returned, or the instance is reset and initializeSpotify is called
RefreshCall(q) ==
    IF Debounced
    THEN Done([NewProc(q, "refreshAuth", "liked", FALSE, 0) EXCEPT !.hit = TRUE],
              <<isAuthenticated>>)
    ELSE [NewProc(q, "refreshAuth", "liked", FALSE, 0) EXCEPT !.pc = "init"]

\* refreshAuthStatus(), from the provider's mount or a consumer of the context
RefreshAuthStart(q) ==
    /\ ops < MaxOps /\ ops' = ops + 1
    /\ Free(q)
    /\ Set(q, RefreshCall(q))
    /\ lastRefreshTime' = IF Debounced THEN lastRefreshTime ELSE now
    /\ spotifyApiInstance' = IF Debounced THEN spotifyApiInstance ELSE 0
    /\ UNCHANGED <<creds, issued, now, isAuthenticated, spotifyApi,
                   authCredentials, authIsAuthenticated>>
    /\ UNCHANGED <<cacheVars, viewVars, remoteVars, pageVars, downloadVars>>

\* initializeSpotify has returned: setSpotifyApi(api), setIsAuthenticated(!!api)
RefreshAuthFinish(p) ==
    /\ Running(p) /\ proc[p].op = "refreshAuth"
    /\ proc[p].api # 0 \/ proc[p].pc = "null"
    /\ spotifyApi' = proc[p].api
    /\ isAuthenticated' = (proc[p].api # 0)
    /\ Set(p, Done(proc[p], <<proc[p].api # 0>>))
    /\ UNCHANGED <<creds, issued, now, spotifyApiInstance, lastRefreshTime,
                   authCredentials, authIsAuthenticated>>
    /\ UNCHANGED <<cacheVars, viewVars, remoteVars, pageVars, downloadVars>>
    /\ UNCHANGED ops

\* SpotifyContent.loadContent: nothing is loaded unless isAuthenticated; the
\* catalog function starts with `await initializeSpotify()`
ViewLoad(p) ==
    /\ ops < MaxOps /\ ops' = ops + 1
    /\ Free(p)
    /\ isAuthenticated
    /\ Set(p, [NewProc(p, "view", "liked", FALSE, 0) EXCEPT !.pc = "init"])
    /\ UNCHANGED <<sessionVars, cacheVars, viewVars, remoteVars, pageVars, downloadVars>>

\* the catalog request is served: the view shows the result
ViewServed(p) ==
    /\ Running(p) /\ proc[p].op = "view" /\ proc[p].pc = "init"
    /\ proc[p].ipc = "none" /\ Token(p) # 0
    /\ Set(p, Done(proc[p], <<>>))
    /\ UNCHANGED <<sessionVars, cacheVars, viewVars, remoteVars, pageVars, downloadVars>>
    /\ UNCHANGED ops

\* the catalog request rejects with a message of the SDK
ViewRemoteFail(p) ==
    /\ Running(p) /\ proc[p].op = "view" /\ proc[p].pc = "init"
    /\ proc[p].ipc = "none" /\ Token(p) # 0
    /\ \E m \in RemoteMessages :
         Set(p, [proc[p] EXCEPT !.pc = "catch", !.error = "remote", !.msg = m])
    /\ UNCHANGED <<sessionVars, cacheVars, viewVars, remoteVars, pageVars, downloadVars>>
    /\ UNCHANGED ops

\* the catch block of loadContent: when the message includes "authentication",
\* resetSpotifyApi() and refreshAuthStatus() (not awaited, in slot q)
ViewCatch(p, q) ==
    /\ Running(p) /\ proc[p].op = "view" /\ proc[p].pc = "catch"
    /\ IF Includes(proc[p].msg, AuthNeedle)
       THEN /\ p # q /\ Free(q)
            /\ spotifyApiInstance' = 0
            /\ lastRefreshTime' = IF Debounced THEN lastRefreshTime ELSE now
            /\ proc' = [proc EXCEPT ![p] = Failed(proc[p], proc[p].error),
                                    ![q] = RefreshCall(q)]
       ELSE /\ p = q
            /\ Set(p, Failed(proc[p], proc[p].error))
            /\ UNCHANGED <<spotifyApiInstance, lastRefreshTime>>
    /\ UNCHANGED <<creds, issued, now, isAuthenticated, spotifyApi,
                   authCredentials, authIsAuthenticated>>
    /\ UNCHANGED <<cacheVars, viewVars, remoteVars, pageVars, downloadVars>>
    /\ UNCHANGED ops

NextView ==
    \/ creds.access = 0 /\ Authorize
    \/ Tick
    \/ \E p \in Procs : RefreshAuthStart(p)
    \/ \E p \in Procs : ViewLoad(p)
    \/ \E p \in Procs : InitReadCreds(p)
    \/ \E p \in Procs : InitReadFail(p)
    \/ \E p \in Procs : InitRefreshOk(p)
    \/ \E p \in Procs : InitRefreshFail(p)
    \/ \E p \in Procs : InitReread(p)
    \/ \E p \in Procs : RefreshAuthFinish(p)
    \/ \E p \in Procs : ViewServed(p)
    \/ \E p \in Procs : ViewRemoteFail(p)
    \/ \E p \in Procs, q \in Procs : ViewCatch(p, q)

SpecView == InitAuth /\ [][NextView]_vars

\* --------------------------------------------------------- multi-item tasks
\* a playlist, album or liked-songs download of n tracks is submitted
SubmitBatch(n) ==
    /\ Register(TRUE, n)
    /\ UNCHANGED <<downloads, reply, canceling, cancelRaised>>
    /\ DownloadFrame

\* one track of the batch has ended, downloaded (ok) or not: download:progress
\* carries the counters
TrackEnds(id, ok) ==
    /\ CanEmit
    /\ id \in Ids(registry)
    /\ LET d == Find(registry, id)
       IN  /\ d.is_playlist /\ d.status = "InProgress"
           /\ d.completed_tracks + d.failed_tracks < d.total_tracks
           /\ registry' = [i \in 1..Len(registry) |->
                             IF registry[i].id # id THEN registry[i]
                             ELSE IF ok THEN [d EXCEPT !.completed_tracks = @ + 1]
                             ELSE [d EXCEPT !.failed_tracks = @ + 1]]
    /\ inflight' = Append(inflight, Event("download:progress", Find(registry', id)))
    /\ UNCHANGED <<downloads, nextTaskId, reply, canceling, cancelRaised>>
    /\ DownloadFrame

\* getStatusDisplay: the label and the numbers put into it
StatusDisplay(d) ==
    IF d.status = "Queued" THEN <<"Queued">>
    ELSE IF d.status = "Searching" THEN <<"Searching">>
    ELSE IF d.status = "InProgress"
         THEN IF d.is_playlist /\ d.total_tracks # 0
              THEN <<"Downloading", d.completed_tracks + d.failed_tracks, d.total_tracks>>
              ELSE <<"Downloading">>
    ELSE IF d.status = "Completed"
         THEN IF d.is_playlist /\ d.completed_tracks # 0 /\ d.failed_tracks # 0
              THEN <<"Completed", d.completed_tracks, d.failed_tracks>>
              ELSE <<"Completed">>
    ELSE IF d.status = "Canceled" THEN <<"Canceled">>
    ELSE IF d.status = "Failed" THEN <<"Failed">>
    ELSE <<"Unknown">>

NextBatch ==
    \/ \E n \in 1..MaxTracks : SubmitBatch(n)
    \/ \E id \in TaskIds : Advance(id)
    \/ \E id \in TaskIds, ok \in BOOLEAN : TrackEnds(id, ok)
    \/ \E id \in TaskIds : Complete(id)
    \/ \E id \in TaskIds : Fail(id)
    \/ OnStarted
    \/ OnProgress
    \/ OnCompleted
    \/ OnFailed
    \/ LoadDownloads
    \/ LoadDownloadsResolve

SpecBatch == InitDownloads /\ [][NextBatch]_vars

\* ------------------------------------------- submitting a download (spotify.ts)
DownloadOps == {"downloadTrack", "downloadPlaylist", "downloadAlbum", "downloadLikedTracks"}

\* downloadTrack goes straight to execute_sldl, the others start with
\* `await initializeSpotify()`
DownloadFirstPc(op) == IF op = "downloadTrack" THEN "exec" ELSE "init"

DownloadStart(p, op) ==
    /\ ops < MaxOps /\ ops' = ops + 1
    /\ Free(p)
    /\ Set(p, [NewProc(p, op, "liked", FALSE, 0) EXCEPT !.pc = DownloadFirstPc(op)])
    /\ UNCHANGED <<sessionVars, cacheVars, viewVars, remoteVars, pageVars, downloadVars>>

\* getPlaylist / albums.get / currentUser.profile is served
DownloadMeta(p) ==
    /\ Running(p) /\ proc[p].op \in DownloadOps /\ proc[p].pc = "init"
    /\ proc[p].ipc = "none" /\ Token(p) # 0
    /\ Set(p, [proc[p] EXCEPT !.pc = "exec", !.api = Token(p)])
    /\ UNCHANGED <<sessionVars, cacheVars, viewVars, remoteVars, pageVars, downloadVars>>
    /\ UNCHANGED ops

\* the metadata request rejects: logged and rethrown
DownloadMetaFail(p) ==
    /\ Running(p) /\ proc[p].op \in DownloadOps /\ proc[p].pc = "init"
    /\ proc[p].ipc = "none" /\ Token(p) # 0
    /\ Set(p, Failed(proc[p], "remote"))
    /\ UNCHANGED <<sessionVars, cacheVars, viewVars, remoteVars, pageVars, downloadVars>>
    /\ UNCHANGED ops

\* invoke("execute_sldl") resolves: the helper is started, the call returns true
ExecuteSldl(p) ==
    /\ Running(p) /\ proc[p].op \in DownloadOps /\ proc[p].pc = "exec"
    /\ Register(proc[p].op # "downloadTrack", 0)
    /\ Set(p, Done(proc[p], <<>>))
    /\ UNCHANGED <<downloads, reply, canceling, cancelRaised>>
    /\ UNCHANGED <<sessionVars, cacheVars, viewVars, remoteVars, pageVars>>
    /\ UNCHANGED ops

\* invoke("execute_sldl") rejects: logged and rethrown
ExecuteSldlFail(p) ==
    /\ Running(p) /\ proc[p].op \in DownloadOps /\ proc[p].pc = "exec"
    /\ Set(p, Failed(proc[p], "ipc"))
    /\ UNCHANGED <<sessionVars, cacheVars, viewVars, remoteVars, pageVars, downloadVars>>
    /\ UNCHANGED ops

NextSubmit ==
    \/ creds.access = 0 /\ Authorize
    \/ Tick
    \/ \E p \in Procs, op \in DownloadOps : DownloadStart(p, op)
    \/ \E p \in Procs : InitReadCreds(p)
    \/ \E p \in Procs : InitReadFail(p)
    \/ \E p \in Procs : InitRefreshOk(p)
    \/ \E p \in Procs : InitRefreshFail(p)
    \/ \E p \in Procs : InitReread(p)
    \/ \E p \in Procs : DownloadMeta(p)
    \/ \E p \in Procs : DownloadMetaFail(p)
    \/ \E p \in Procs : ExecuteSldl(p)
    \/ \E p \in Procs : ExecuteSldlFail(p)
    \/ OnStarted

SpecSubmit == InitAuth /\ [][NextSubmit]_vars

\* ======================================================== claims, SpecSubmit
\* no token is stored and no instance is cached: initializeSpotify returns null
Unauthenticated == creds.access = 0 /\ spotifyApiInstance = 0

\* C16 (as claimed): while the session is unauthenticated none of downloadTrack,
\* downloadPlaylist, downloadAlbum and downloadLikedTracks invokes execute_sldl,
\* and the call rejects.
C16_UnauthenticatedDownloadRejected ==
    [][\A p \in Procs :
         (/\ Unauthenticated /\ proc'[p] # proc[p]
          /\ proc[p].op \in DownloadOps /\ Running(p))
         => (nextTaskId' = nextTaskId /\ proc'[p].status = "failed")]_vars

\* ========================================================== claims, SpecAuth
\* C10 (as claimed): when logout completes, through the context's logout or
\* through Disconnect of the settings panel, the stored tokens and expiry are
\* null and no instance is left in memory, so that the next initializeSpotify
\* returns null.
C10_LogoutLeavesNoSession ==
    [][\A p \in Procs :
         (/\ proc[p].op \in {"logout", "disconnect"} /\ proc[p].status = "run"
          /\ proc'[p].status = "done" /\ proc'[p].error = "none")
         => (creds' = WithoutTokens(creds') /\ spotifyApiInstance' = 0)]_vars

\* C25 (as claimed): for the stored expiry and the clock as they are, the
\* settings panel's check and initializeSpotify agree on whether the token is
\* expired.
C25_SameExpiryVerdict == AuthIsExpired(creds, now) = IsExpired(creds, now)

\* a call of op `op` ends in this step, in slot p
Ends(p, op) == proc'[p] # proc[p] /\ proc'[p].op = op /\ proc'[p].status \in {"done", "failed"}

\* C11 (as claimed): logout completes without raising also when get_credentials
\* or save_credentials fails, and then the instance is reset and isAuthenticated
\* is false.
C11_LogoutFailureClearsMemory ==
    [][\A p \in Procs :
         Ends(p, "logout") => (/\ proc'[p].status = "done"
                                /\ spotifyApiInstance' = 0 /\ ~isAuthenticated')]_vars

\* a call of initializeSpotify in slot p decides in this step on what it finds:
\* it starts now, or it has started and has read nothing yet
Decides(p) ==
    /\ proc'[p] # proc[p] /\ proc'[p].op = "init"
    /\ ~Running(p) \/ (proc[p].op = "init" /\ proc[p].api = 0 /\ proc[p].ipc = "none")

\* C12 (as claimed): a call of initializeSpotify that finds an expired access
\* token and a refresh token returns no session without refreshing, also when
\* an instance was cached before.
C12_ExpiredTokenIsRefreshed ==
    [][\A p \in Procs :
         (/\ Decides(p)
          /\ creds.access # 0 /\ creds.refresh # 0 /\ IsExpired(creds, now))
         => (proc'[p].status # "done" /\ proc'[p].api = 0)]_vars

\* C14 (as claimed): a call of initializeSpotify that finds an access token that
\* is expired or has no expiry, and no refresh token, returns null, invokes no
\* refresh and leaves no instance cached.
C14_ExpiredWithoutRefreshToken ==
    [][\A p \in Procs :
         (/\ Decides(p)
          /\ creds.access # 0 /\ creds.refresh = 0 /\ IsExpired(creds, now))
         => (/\ proc'[p].status # "done" /\ proc'[p].api = 0
             /\ proc'[p].ipc # "refresh" /\ spotifyApiInstance' = spotifyApiInstance)]_vars

\* C13 (as claimed): when the refresh fails, initializeSpotify returns null, no
\* instance is cached and the credential store no longer holds the expired
\* access token.
C13_RefreshFailureLeavesNoToken ==
    [][\A p \in Procs :
         (/\ proc[p].op = "init" /\ Running(p) /\ proc[p].ipc \in {"refresh", "reread"}
          /\ proc'[p].status = "failed")
         => (spotifyApiInstance' = 0 /\ creds'.access = 0)]_vars

\* C19 (as claimed): at most one refresh_spotify_token call is in flight.
C19_OneRefreshInFlight ==
    Cardinality({p \in Procs : Running(p) /\ proc[p].ipc = "refresh"}) <= 1


\* ===================================================== claims, SpecDownloads
\* the page shows download id with status a before the step and b after it
Once(list, id) == Cardinality({i \in 1..Len(list) : list[i].id = id}) = 1
Shown(id, a, b) ==
    /\ Once(downloads, id) /\ Find(downloads, id).status = a
    /\ Once(downloads', id) /\ Find(downloads', id).status = b

\* C7 (as claimed): a download shown as Completed, Failed or Canceled keeps that
\* status through every event and every list reload.
C7_TerminalStatusIsFinal ==
    [][\A id \in TaskIds : \A a \in TerminalStatuses :
         \A b \in (ActiveStatuses \cup TerminalStatuses) \ {a} : ~Shown(id, a, b)]_vars

\* C8 (as claimed): whenever the status shown for a download changes, the
\* change is an edge of the task state machine.
C8_StatusFollowsEdges ==
    [][\A id \in TaskIds : \A a, b \in ActiveStatuses \cup TerminalStatuses :
         (Shown(id, a, b) /\ a # b) => Edge(a, b)]_vars

\* C9: cancelDownload for a task that is already terminal (or already cleared)
\* in the registry leaves the record the page holds as it is and raises nothing
\* to its caller, whether cancel_download resolves or rejects.
C9_CancelOnTerminalIsNoOp ==
    [][(/\ canceling # 0 /\ canceling' = 0
        /\ canceling \in Ids(registry) => Find(registry, canceling).status \in TerminalStatuses)
       => (downloads' = downloads /\ ~cancelRaised /\ ~cancelRaised')]_vars

\* C9 witness: a cancel request is being served for a task that has meanwhile
\* failed in the registry and is still shown as active
C9_Witness ==
    /\ canceling # 0 /\ canceling \in Ids(registry) /\ canceling \in Ids(downloads)
    /\ Find(registry, canceling).status = "Failed"
    /\ IsActive(Find(downloads, canceling))
    /\ ~cancelRaised

\* the download:started event of task id is still on its way to the page
StartedPending(id) ==
    \E i \in 1..Len(inflight) :
        inflight[i].type = "download:started" /\ inflight[i].payload.id = id

\* C17 (as claimed): a single-item download that is registered has exactly one
\* entry in the page's list once its download:started event has arrived and
\* never more than one; an entry shown before that event is Queued; an entry
\* shown as Completed carries the file_path of the completed task.
C17_SingleDownloadLifecycle ==
    \A id \in Ids(registry) :
        LET shown == {i \in 1..Len(downloads) : downloads[i].id = id}
        IN  /\ Cardinality(shown) <= 1
            /\ ~StartedPending(id) => Cardinality(shown) = 1
            /\ \A i \in shown :
                  /\ StartedPending(id) => downloads[i].status = "Queued"
                  /\ downloads[i].status = "Completed"
                     => downloads[i].file_path = OutputPath(id)

\* ====================================================== claims, SpecSettings
\* C24 (as claimed): an access token appears in the credential store, where
\* there was none, only by a new authorization; after a logout has cleared the
\* tokens, Save Settings does not bring the old ones back.
C24_TokensStayCleared ==
    [][(creds.access = 0 /\ creds'.access # 0) => issued' = issued + 1]_vars

\* ========================================================== claims, SpecFlow
\* C29 (as claimed): when the flow reports success, a token pair has been
\* stored by an authorization that came after the flow was started.
C29_SuccessFollowsOwnAuthorization ==
    [][(authFlow.isAuthenticating /\ authFlow'.succeeded) => issued > authFlow.started]_vars

\* ========================================================== claims, SpecView
\* C15 (as claimed): when the view's handler ends a catalog read that failed
\* with "Not authenticated with Spotify", the instance has been reset and the
\* authentication status is re-derived: refreshAuthStatus has been called, a
\* call inside its debounce window apart.
C15_AuthFailureInvalidatesSession ==
    [][\A p \in Procs :
         (/\ Running(p) /\ proc[p].op = "view" /\ proc[p].pc = "catch"
          /\ proc[p].msg = NotAuthenticatedMessage
          /\ proc'[p].status = "failed")
         => (/\ spotifyApiInstance' = 0
             /\ \E q \in Procs \ {p} :
                  proc'[q] # proc[q] /\ proc'[q].op = "refreshAuth")]_vars

\* C26 (as claimed): the page's list never holds two entries with the same task
\* id, however the answer to get_all_downloads and the download:started events
\* interleave.
C26_NoDuplicateEntries ==
    \A i, j \in 1..Len(downloads) : downloads[i].id = downloads[j].id => i = j

IsPrefix(s, t) == Len(s) <= Len(t) /\ SubSeq(t, 1, Len(s)) = s

\* C23 (as claimed): the console log an entry of the page's list shows is a
\* prefix of the log it shows after any event or list reload.
C23_ConsoleLogAppendOnly ==
    [][\A id \in TaskIds :
         (Once(downloads, id) /\ Once(downloads', id))
         => IsPrefix(Find(downloads, id).console_logs,
                     Find(downloads', id).console_logs)]_vars

\* C30 (as claimed): when a call of refreshAuthStatus returns true, the module's
\* instance is set and is the one built from the access token stored at that
\* moment, also for a call inside the debounce window or after a reset.
C30_RefreshTrueMeansSession ==
    [][\A p \in Procs :
         (/\ proc'[p] # proc[p] /\ proc'[p].op = "refreshAuth"
          /\ proc'[p].status = "done" /\ proc'[p].result = <<TRUE>>)
         => (spotifyApiInstance' # 0 /\ spotifyApiInstance' = creds'.access)]_vars

\* ========================================================= claims, SpecBatch
\* an event of type `type` for task id is delivered to the page in this step
Arrives(type, id) ==
    /\ inflight # <<>> /\ inflight' = Tail(inflight)
    /\ Head(inflight).type = type /\ Head(inflight).payload.id = id

\* C18: when a download:progress or download:completed event of a multi-item
\* task arrives, the task's entry takes the status and the counters the event
\* carries; when the download:completed event arrives after c tracks have
\* completed and f > 0 have failed, c + f being the total, the entry is Completed
\* with completed_tracks = c and failed_tracks = f, and is displayed as
\* Completed, not as Failed.
C18_BatchWithFailuresCompletes ==
    [][\A id \in TaskIds : \A type \in {"download:progress", "download:completed"} :
         (Arrives(type, id) /\ Once(downloads, id) /\ Head(inflight).payload.is_playlist)
         => LET d == Head(inflight).payload
                e == Find(downloads', id)
            IN  /\ Once(downloads', id)
                /\ e.status = d.status
                /\ e.completed_tracks = d.completed_tracks
                /\ e.failed_tracks = d.failed_tracks
                /\ (/\ type = "download:completed" /\ d.failed_tracks > 0
                    /\ d.completed_tracks + d.failed_tracks = d.total_tracks)
                   => (/\ e.status = "Completed"
                       /\ e.completed_tracks + e.failed_tracks = e.total_tracks
                       /\ StatusDisplay(e)[1] = "Completed"
                       /\ e.completed_tracks > 0
                          => StatusDisplay(e) = <<"Completed", d.completed_tracks,
                                                  d.failed_tracks>>)]_vars

\* C18 witness: a task of two tracks is shown as Completed with one track
\* completed and one failed, its events all delivered
C18_Witness ==
    \E i \in 1..Len(downloads) :
        /\ downloads[i].is_playlist /\ downloads[i].status = "Completed"
        /\ downloads[i].total_tracks = 2
        /\ downloads[i].completed_tracks = 1 /\ downloads[i].failed_tracks = 1
        /\ downloads[i] = Find(registry, downloads[i].id)
        /\ inflight = <<>> /\ reply = <<>>

\* ========================================================= claims, SpecCache
\* a fetch function is called in this step, in slot p
FetchCalled(p) ==
    /\ ops' = ops + 1
    /\ proc'[p] # proc[p]
    /\ proc'[p].op \in FetchOps

\* C1: once an entry is stored for a key, a fetch of that key with
\* forceRefresh = false returns the stored sequence, issues no catalog request
\* (no probe, no page, no metadata read) and leaves the caches as they are; an
\* empty stored sequence counts as an entry.
C1_CachedFetchReturnsEntry ==
    [][\A p \in Procs :
         (FetchCalled(p) /\ ~proc'[p].force /\ Entry(proc'[p].key).present)
         => /\ proc'[p].status = "done"
            /\ proc'[p].result = Entry(proc'[p].key).items
            /\ proc'[p].log = <<>> /\ proc'[p].meta = 0
            /\ cacheVars' = cacheVars]_vars

\* C1 witness: a non-forced fetchLikedTracks was answered from a stored empty entry
C1_Witness ==
    \E p \in Procs :
        /\ proc[p].op = "fetchLiked" /\ proc[p].status = "done" /\ proc[p].hit
        /\ proc[p].result = <<>> /\ proc[p].log = <<>>
        /\ likedTracks = Some(<<>>)

\* C4: when the probe or a page request of a sweep fails, the fetch rejects and
\* has stored nothing: the failing step leaves every cache entry as it is, the
\* failed fetch never wrote, and an entry only ever changes in the step in which
\* a fetch completes successfully.
C4_FailedSweepLeavesCache ==
    [][/\ \A p \in Procs :
            (proc[p].status = "run" /\ proc'[p].status = "failed")
            => (cacheVars' = cacheVars /\ ~proc'[p].wrote)
       /\ (cacheVars' # cacheVars)
            => \E p \in Procs : /\ proc[p].status = "run" /\ proc[p].op \in FetchOps
                                /\ proc'[p].status = "done" /\ proc'[p].wrote
                                /\ \A k \in Keys \ {proc[p].key} : Entry(k)' = Entry(k)]_vars

\* C4 witness: a forced fetchLikedTracks failed after its first page while an
\* entry was stored
C4_Witness ==
    \E p \in Procs :
        /\ proc[p].op = "fetchLiked" /\ proc[p].status = "failed" /\ proc[p].error = "remote"
        /\ proc[p].i >= 1
        /\ likedTracks.present /\ Len(likedTracks.items) > 0

RECURSIVE PagesConcat(_, _, _)
\* the items of the pages from the k-th on, as the sweep appends them
PagesConcat(kind, pages, k) ==
    IF k > Len(pages) THEN <<>>
    ELSE Appended(kind, [j \in 1..pages[k].len |-> Item(kind, pages[k].offset + j)])
         \o PagesConcat(kind, pages, k + 1)

SweepReturned(r) ==
    /\ r.op \in SweepOps /\ r.status \in {"run", "done"}
    /\ r.pc \in {"after", "meta", "end"} /\ Len(r.log) >= 1

\* what the fetch function makes of the sweep's items
Cached(r) ==
    IF r.op = "fetchPlaylist" THEN MapSeq(r.acc, TrackOf)
    ELSE IF r.op = "fetchAlbum" THEN MapSeq(r.acc, LAMBDA t : AlbumTrack(r.key, t))
    ELSE r.acc

\* C21: a cache entry changes only in the step in which a fetch for that key
\* completes successfully, and what is stored then is the sequence built from
\* all the pages of that fetch's sweep; until then the entry is the one from
\* before, and a sequence of only some of the pages is never stored.
C21_NoPartialEntry ==
    [][\A k \in Keys :
         (Entry(k)' # Entry(k))
         => \E p \in Procs :
              LET r == proc[p]
              IN  /\ Running(p) /\ r.op = FetchOp(k) /\ r.key = k
                  /\ proc'[p].status = "done"
                  /\ Len(Pages(r)) = BatchCount(r.total, r.size)
                  /\ r.acc = PagesConcat(KindOf(k), Pages(r), 1)
                  /\ Entry(k)' = Some(Cached(r))]_vars

\* C21 witness: a fetch has stored the two pages of the liked tracks while a
\* forced fetch of the same key has read the first of its two pages
C21_Witness ==
    \E p, q \in Procs :
        /\ proc[p].op = "fetchLiked" /\ proc[p].status = "done" /\ proc[p].wrote
        /\ Len(Pages(proc[p])) = 2 /\ likedTracks = Some(proc[p].result)
        /\ proc[q].op = "fetchLiked" /\ Running(q) /\ proc[q].pc = "page"
        /\ Len(Pages(proc[q])) = 1 /\ Len(proc[q].acc) = LikedPageLimit
        /\ Len(likedTracks.items) = LikedPageLimit + 1

\* C5 (as claimed): a forced refresh, loadLikedTracks(true) included, runs
\* exactly one sweep.
C5_ForcedRefreshOneSweep ==
    \A p \in Procs :
        (proc[p].op \in SweepOps /\ proc[p].root = p /\ proc[p].force /\ proc[p].status = "done")
        => proc[p].sweeps = 1

\* C6 (as claimed): when logout completes, no liked-tracks entry is stored.
C6_LogoutClearsLikedTracks ==
    [][\A p \in Procs :
         (proc[p].op = "logout" /\ proc[p].status = "run" /\ proc'[p].status = "done")
         => ~likedTracks'.present]_vars

\* ========================================================= claims, SpecDrift
\* C28 (as claimed): a sweep that has returned holds exactly as many items as
\* its probe reported, and the last progress report of loadLikedTracks' sweep
\* says loaded = total, also when the collection changed in between.
C28_SweepYieldsTotal ==
    \A p \in Procs :
        LET r == proc[p]
        IN  SweepReturned(r)
            => /\ Len(r.acc) = r.total
               /\ r.progress # <<>> => r.progress = <<r.total, r.total>>

\* ===================================================== claims, SpecTerminate
\* C27 (as claimed): a sweep that was started comes to an end, returning or
\* failing, whatever the total and the batch-size argument are.
C27_SweepTerminates ==
    \A p \in Procs : (proc[p].status = "run") ~> (proc[p].status # "run")

\* ========================================================= claims, SpecSweep
\* C2: for T >= 1 and a batch size B >= 1 a sweep issues one probe and then
\* exactly ceil(T / min(B, max)) page requests, max being 50 for liked and album
\* tracks and 100 for playlist items; what it returns, and what the fetch
\* function then caches, is the concatenation of the pages in request order.
C2_SweepPagesAndOrder ==
    \A p \in Procs :
        LET r == proc[p]
            max == IF Kind(p) = "playlist" THEN 100 ELSE 50
        IN  (SweepReturned(r) /\ r.total >= 1 /\ r.batch >= 1)
            => /\ Len(Probes(r)) = 1 /\ r.log[1].probe
               /\ Len(Pages(r)) = CeilDiv(r.total, Min(r.batch, max))
               /\ r.acc = PagesConcat(Kind(p), Pages(r), 1)
               /\ r.status = "done" => r.result = Cached(r)
               /\ (r.status = "done" /\ r.op \in FetchOps) => Entry(r.key) = Some(r.result)

\* C2 witness: getAllLikedTracks(51) over 51 liked tracks returned after two pages
C2_Witness ==
    \E p \in Procs :
        /\ proc[p].op = "getAll" /\ proc[p].key = "liked" /\ proc[p].status = "done"
        /\ proc[p].batch = 51 /\ proc[p].total = 51
        /\ Len(Pages(proc[p])) = 2 /\ Len(proc[p].result) = 51

\* C3: when the probe reports total = 0 the sweep has issued that one one-item
\* probe and no page request, and the fetch returns (and stores) the empty
\* sequence, for the liked, playlist and album collections alike.
C3_EmptyCollection ==
    \A p \in Procs :
        LET r == proc[p]
        IN  (r.op \in SweepOps /\ r.status \in {"run", "done"} /\ Len(r.log) >= 1 /\ r.total = 0)
            => /\ r.log = <<[probe |-> TRUE, limit |-> 1, offset |-> 0, len |-> 0]>>
               /\ r.acc = <<>>
               /\ r.status = "done" => r.result = <<>>
               /\ (r.status = "done" /\ r.op \in FetchOps) => Entry(r.key) = Some(<<>>)

\* C3 witness: fetchAlbumTracks of an empty album has returned
C3_Witness ==
    \E p \in Procs :
        /\ proc[p].op = "fetchAlbum" /\ proc[p].status = "done" /\ proc[p].total = 0
        /\ Len(proc[p].log) = 1 /\ proc[p].meta = 1
        /\ albumTracksCache[proc[p].key] = Some(<<>>)

\* C20: within one sweep with a batch size B >= 1, the k-th page request
\* (k = 0, 1, ...) asks for offset k * min(B, max), the offsets are strictly
\* increasing, and when a page is requested the items of all pages requested
\* before it have been appended, in request order; the step appends the new page.
C20_PagesInOffsetOrder ==
    [][\A p \in Procs :
         LET r == proc[p]
             r2 == proc'[p]
             k == Len(Pages(r))
             max == IF Kind(p) = "playlist" THEN 100 ELSE 50
         IN  (/\ Running(p) /\ r.op \in SweepOps /\ r2.op = r.op /\ r2.key = r.key
              /\ r.batch >= 1 /\ Len(Pages(r2)) = k + 1)
             => /\ Pages(r2)[k + 1].offset = k * Min(r.batch, max)
                /\ k >= 1 => Pages(r2)[k + 1].offset > Pages(r)[k].offset
                /\ \A j \in 1..k : Pages(r2)[j] = Pages(r)[j]
                /\ r.acc = PagesConcat(Kind(p), Pages(r), 1)
                /\ r2.acc = PagesConcat(Kind(p), Pages(r2), 1)]_vars

\* C20 witness: getAllLikedTracks(51) has requested its second page, at offset 50,
\* and holds the 51 tracks
C20_Witness ==
    \E p \in Procs :
        /\ proc[p].op = "getAll" /\ proc[p].key = "liked" /\ Running(p)
        /\ proc[p].batch = 51 /\ Len(Pages(proc[p])) = 2
        /\ Pages(proc[p])[1].offset = 0 /\ Pages(proc[p])[2].offset = 50
        /\ Len(proc[p].acc) = 51

====
